---- MODULE Spec2Model ----
(***************************************************************************)
(* Model of n3store-sync: SyncStore (an N3 Store that dispatches events on *)
(* every mutation, src/sync-store.ts:163-263) and OramaStore (the          *)
(* coordinator that keeps an Orama index in step with the store through    *)
(* two event listeners, src/sync-store.ts:348-680).                        *)
(*                                                                         *)
(* Strings are sequences of one-character strings, so that key derivation  *)
(* (a '|'-joined concatenation) and the embedding hash are computed, not   *)
(* assumed.                                                                *)
(***************************************************************************)
EXTENDS Integers, Sequences, FiniteSets, TLC

VARIABLES
    syncStore,          \* the quads held by the N3 store (OramaStore.syncStore)
    oramaDB,            \* the documents held by the Orama index (OramaStore.oramaDB)
    streams,            \* removal streams handed to remove(stream), not yet flowed
    subjectQuadCounts,  \* the external tracker's Map (subject value -> count)
    events,             \* events dispatched by the latest call, in dispatch order
    errors,             \* exceptions raised by listeners during the latest call
    last,               \* the latest call: operation, arguments, state before it
    halted,             \* an unhandled listener exception terminated the program
    config,             \* which listeners are registered; global error handler
    answer,             \* what the latest query call gave its caller
    storeSeen           \* the store as the listeners of each event found it

vars == <<syncStore, oramaDB, streams, subjectQuadCounts, events, errors, last,
          halted, config, answer, storeSeen>>

----------------------------------------------------------------------------
(* Bounds of the model. *)

MaxBatch == 2       \* longest quad list passed to a batch operation
MaxStreams == 1     \* removal streams that may be pending at once
MaxCount == 2       \* the tracker's counters are explored within -MaxCount..MaxCount

----------------------------------------------------------------------------
(* RDF terms and quads (n3 DataFactory). *)

EMPTY == <<>>

NamedNode(v) ==
    [termType |-> "NamedNode", value |-> v, language |-> EMPTY, datatype |-> EMPTY]

BlankNode(v) ==
    [termType |-> "BlankNode", value |-> v, language |-> EMPTY, datatype |-> EMPTY]

DefaultGraph ==
    [termType |-> "DefaultGraph", value |-> EMPTY, language |-> EMPTY, datatype |-> EMPTY]

\* http://www.w3.org/2001/XMLSchema#string, the datatype n3 gives a plain
\* literal.
XsdString ==
    <<"h", "t", "t", "p", ":", "/", "/", "w", "w", "w", ".", "w", "3", ".",
      "o", "r", "g", "/", "2", "0", "0", "1", "/", "X", "M", "L", "S", "c",
      "h", "e", "m", "a", "#", "s", "t", "r", "i", "n", "g">>

\* http://www.w3.org/1999/02/22-rdf-syntax-ns#langString, the datatype n3
\* gives a language-tagged literal.
LangString ==
    <<"h", "t", "t", "p", ":", "/", "/", "w", "w", "w", ".", "w", "3", ".",
      "o", "r", "g", "/", "1", "9", "9", "9", "/", "0", "2", "/", "2", "2",
      "-", "r", "d", "f", "-", "s", "y", "n", "t", "a", "x", "-", "n", "s",
      "#", "l", "a", "n", "g", "S", "t", "r", "i", "n", "g">>

Literal(v, lang) ==
    [termType |-> "Literal", value |-> v, language |-> lang,
     datatype |-> IF lang = EMPTY THEN XsdString ELSE LangString]

\* A wildcard position of a pattern (null in removeMatches and getQuads).
Null == [termType |-> "null", value |-> EMPTY, language |-> EMPTY, datatype |-> EMPTY]

quad(s, p, o, g) == [subject |-> s, predicate |-> p, object |-> o, graph |-> g]

\* The facts callers use.  Q1 and Q2 differ only in the kind of their subject
\* (the IRI <a> and the blank node _:a); Q3 has another subject, a
\* language-tagged literal and lives in the named graph g.
Q1 == quad(NamedNode(<<"a">>), NamedNode(<<"p">>), Literal(<<"v">>, EMPTY), DefaultGraph)
Q2 == quad(BlankNode(<<"a">>), NamedNode(<<"p">>), Literal(<<"v">>, EMPTY), DefaultGraph)
Q3 == quad(NamedNode(<<"b">>), NamedNode(<<"p">>), Literal(<<"w">>, <<"e">>), NamedNode(<<"g">>))

QuadList == <<Q1, Q2, Q3>>

Quads == {QuadList[i] : i \in 1..Len(QuadList)}

QuadLists == UNION {[1..n -> Quads] : n \in 0..MaxBatch}

SubjectValues == {q.subject.value : q \in Quads}

\* Patterns given to removeMatches: each position a term or a wildcard.
Patterns ==
    {quad(Null, Null, Null, Null),
     quad(NamedNode(<<"a">>), Null, Null, Null),
     quad(Null, NamedNode(<<"p">>), Null, DefaultGraph),
     quad(Null, Null, Null, NamedNode(<<"g">>))}

Graphs == {DefaultGraph, NamedNode(<<"g">>)}

RECURSIVE Range(_)
Range(s) == IF s = <<>> THEN {} ELSE {Head(s)} \cup Range(Tail(s))

\* The quads of a set as an array (what getQuads returns): every quad of the
\* set once.  The array's order is the store's iteration order, which the
\* set fixes here: the callers' facts in the order of QuadList, then any
\* other quad of the set.
ToArray(S) ==
    LET others == S \ Quads
    IN  SelectSeq(QuadList, LAMBDA q : q \in S) \o
        (CHOOSE rest \in [1..Cardinality(others) -> others] : Range(rest) = others)

----------------------------------------------------------------------------
(* 32-bit arithmetic of the embedding hash. *)

\* (31 * a + c) reduced to a signed 32-bit integer, computed on 16-bit limbs:
\* ((a << 5) - a) + c followed by a & a.
HashStep(a, c) ==
    LET lo == a % 65536
        hi == ((a - lo) \div 65536) % 65536
        t == 31 * lo + c
        newlo == t % 65536
        newhi == (31 * hi + (t \div 65536)) % 65536
    IN  IF newhi >= 32768 THEN (newhi - 65536) * 65536 + newlo
                          ELSE newhi * 65536 + newlo

charCodeAt(ch) ==
    CASE ch = " " -> 32
      [] ch = "a" -> 97
      [] ch = "b" -> 98
      [] ch = "e" -> 101
      [] ch = "g" -> 103
      [] ch = "l" -> 108
      [] ch = "p" -> 112
      [] ch = "s" -> 115
      [] ch = "v" -> 118
      [] ch = "w" -> 119
      [] ch = "x" -> 120
      [] ch = "|" -> 124

RECURSIVE HashFrom(_, _)
HashFrom(a, text) ==
    IF text = <<>> THEN a
    ELSE HashFrom(HashStep(a, charCodeAt(Head(text))), Tail(text))

\* The embedding of a text.  The 384 components are sin(hash + i) * 0.5 for
\* i in 0..383, a function of the hash alone; the model keeps the hash and
\* the dimension.
EmbeddingDim == 384

generateMockEmbedding(text) == [hash |-> HashFrom(0, text), dim |-> EmbeddingDim]

----------------------------------------------------------------------------
(* Key derivation and document projection. *)

Bar == <<"|">>

Space == <<" ">>

\* The characters of a term type, as they are interpolated into the key.
TermTypeText(t) ==
    CASE t = "NamedNode" -> <<"N", "a", "m", "e", "d", "N", "o", "d", "e">>
      [] t = "BlankNode" -> <<"B", "l", "a", "n", "k", "N", "o", "d", "e">>
      [] t = "Literal" -> <<"L", "i", "t", "e", "r", "a", "l">>
      [] t = "DefaultGraph" -> <<"D", "e", "f", "a", "u", "l", "t", "G", "r", "a", "p", "h">>

\* Mutant: the key with the graph and the object's term type swapped.
generateQuadId_Reordered(q) ==
    q.subject.value \o Bar \o q.predicate.value \o Bar \o q.object.value \o Bar
        \o TermTypeText(q.object.termType) \o Bar \o q.graph.value \o Bar
        \o (IF q.object.termType = "Literal" THEN q.object.language ELSE EMPTY) \o Bar
        \o (IF q.object.termType = "Literal" THEN q.object.datatype ELSE EMPTY)

generateQuadId(q) ==
    LET subject == q.subject.value
        predicate == q.predicate.value
        object == q.object.value
        graph == q.graph.value
        objectType == TermTypeText(q.object.termType)
        objectLanguage == IF q.object.termType = "Literal" THEN q.object.language ELSE EMPTY
        objectDatatype == IF q.object.termType = "Literal" THEN q.object.datatype ELSE EMPTY
    IN  subject \o Bar \o predicate \o Bar \o object \o Bar \o graph \o Bar
            \o objectType \o Bar \o objectLanguage \o Bar \o objectDatatype

\* Mutant: the projection tagging the document with the subject's kind.
quadToOramaDoc_SubjectKind(q, id) ==
    LET objectType == q.subject.termType
        objectValue == q.object.value
        objectLanguage == IF objectType = "Literal" THEN q.object.language ELSE EMPTY
        objectDatatype == IF objectType = "Literal" THEN q.object.datatype ELSE EMPTY
        quadText == q.subject.value \o Space \o q.predicate.value \o Space \o objectValue
    IN  [id |-> id,
         subject |-> q.subject.value,
         predicate |-> q.predicate.value,
         object |-> objectValue,
         graph |-> q.graph.value,
         objectType |-> objectType,
         objectValue |-> objectValue,
         objectLanguage |-> objectLanguage,
         objectDatatype |-> objectDatatype,
         subjectEmbedding |-> generateMockEmbedding(q.subject.value),
         predicateEmbedding |-> generateMockEmbedding(q.predicate.value),
         objectEmbedding |-> generateMockEmbedding(objectValue),
         combinedEmbedding |-> generateMockEmbedding(quadText)]

\* Mutant: the projection embedding the quad's text joined without spaces.
quadToOramaDoc_Unspaced(q, id) ==
    LET objectType == q.object.termType
        objectValue == q.object.value
        objectLanguage == IF objectType = "Literal" THEN q.object.language ELSE EMPTY
        objectDatatype == IF objectType = "Literal" THEN q.object.datatype ELSE EMPTY
        quadText == q.subject.value \o q.predicate.value \o objectValue
    IN  [id |-> id,
         subject |-> q.subject.value,
         predicate |-> q.predicate.value,
         object |-> objectValue,
         graph |-> q.graph.value,
         objectType |-> objectType,
         objectValue |-> objectValue,
         objectLanguage |-> objectLanguage,
         objectDatatype |-> objectDatatype,
         subjectEmbedding |-> generateMockEmbedding(q.subject.value),
         predicateEmbedding |-> generateMockEmbedding(q.predicate.value),
         objectEmbedding |-> generateMockEmbedding(objectValue),
         combinedEmbedding |-> generateMockEmbedding(quadText)]

quadToOramaDoc(q, id) ==
    LET objectType == q.object.termType
        objectValue == q.object.value
        objectLanguage == IF objectType = "Literal" THEN q.object.language ELSE EMPTY
        objectDatatype == IF objectType = "Literal" THEN q.object.datatype ELSE EMPTY
        quadText == q.subject.value \o Space \o q.predicate.value \o Space \o objectValue
    IN  [id |-> id,
         subject |-> q.subject.value,
         predicate |-> q.predicate.value,
         object |-> objectValue,
         graph |-> q.graph.value,
         objectType |-> objectType,
         objectValue |-> objectValue,
         objectLanguage |-> objectLanguage,
         objectDatatype |-> objectDatatype,
         subjectEmbedding |-> generateMockEmbedding(q.subject.value),
         predicateEmbedding |-> generateMockEmbedding(q.predicate.value),
         objectEmbedding |-> generateMockEmbedding(objectValue),
         combinedEmbedding |-> generateMockEmbedding(quadText)]

----------------------------------------------------------------------------
(* The Orama index: documents keyed by id. *)

count(db) == Cardinality(db)

ids(db) == {d.id : d \in db}

\* getByID: the document stored under the id, or undefined.
Undefined == [id |-> "undefined"]

getByID(db, id) ==
    IF \E d \in db : d.id = id THEN CHOOSE d \in db : d.id = id ELSE Undefined

\* insert: a second document under an id already stored is refused with
\* DOCUMENT_ALREADY_EXISTS and the index keeps the document it has.
insert(db, doc) ==
    IF doc.id \in ids(db)
    THEN [db |-> db, error |-> "DOCUMENT_ALREADY_EXISTS"]
    ELSE [db |-> db \cup {doc}, error |-> "none"]

\* remove: deletes the document stored under the id; nothing to do, and no
\* error, when there is none.
remove(db, id) == [db |-> {d \in db : d.id # id}, error |-> "none"]

----------------------------------------------------------------------------
(* Searching the Orama index. *)

\* The vector properties of the schema.
VectorProperties ==
    {"subjectEmbedding", "predicateEmbedding", "objectEmbedding", "combinedEmbedding"}

\* The string properties of the schema, which full-text search looks into.
StringProperties ==
    {"id", "subject", "predicate", "object", "graph", "objectValue",
     "objectLanguage", "objectDatatype"}

\* The cosine similarity of two embeddings in thousandths, rounded down.  The
\* vectors are sin(hash + i) * 0.5 for i in 0..383, so the similarity is a
\* function of the two hashes; it is tabulated for the texts the model
\* embeds (the fields of the facts and the queries), equal vectors giving
\* 1000.
CosineSimilarity(e1, e2) ==
    LET lo == IF e1.hash <= e2.hash THEN e1.hash ELSE e2.hash
        hi == IF e1.hash <= e2.hash THEN e2.hash ELSE e1.hash
    IN  CASE
          lo = hi -> 1000
      [] lo = 0 /\ hi = 97 -> -925
      [] lo = 0 /\ hi = 98 -> -819
      [] lo = 0 /\ hi = 112 -> 455
      [] lo = 0 /\ hi = 118 -> 189
      [] lo = 0 /\ hi = 119 -> 928
      [] lo = 0 /\ hi = 90643591 -> -912
      [] lo = 0 /\ hi = 91567113 -> -543
      [] lo = 97 /\ hi = 98 -> 538
      [] lo = 97 /\ hi = 112 -> -760
      [] lo = 97 /\ hi = 118 -> -549
      [] lo = 97 /\ hi = 119 -> -1000
      [] lo = 97 /\ hi = 120 -> -532
      [] lo = 97 /\ hi = 90643591 -> 687
      [] lo = 97 /\ hi = 91567113 -> 181
      [] lo = 98 /\ hi = 120 -> -1000
      [] lo = 98 /\ hi = 90643591 -> 982
      [] lo = 112 /\ hi = 120 -> -147
      [] lo = 112 /\ hi = 90643591 -> -50
      [] lo = 118 /\ hi = 120 -> -418
      [] lo = 118 /\ hi = 90643591 -> 230
      [] lo = 119 /\ hi = 120 -> 538
      [] lo = 119 /\ hi = 90643591 -> -694
      [] lo = 120 /\ hi = 90643591 -> -981
      [] lo = 120 /\ hi = 91567113 -> -930
      [] lo = 90643591 /\ hi = 91567113 -> 839

\* The characters the tokenizer keeps inside a token, lower-cased; every
\* other character separates tokens.
LowerCase(ch) ==
    CASE ch = "B" -> "b"
      [] ch = "D" -> "d"
      [] ch = "G" -> "g"
      [] ch = "L" -> "l"
      [] ch = "M" -> "m"
      [] ch = "N" -> "n"
      [] ch = "S" -> "s"
      [] ch = "X" -> "x"
      [] OTHER -> ch

Separators == {" ", "|", ":", "/", ".", "#"}

\* The tokens of a text: maximal runs of token characters, lower-cased.
RECURSIVE TokensFrom(_, _)
TokensFrom(text, current) ==
    IF text = <<>>
    THEN IF current = <<>> THEN {} ELSE {current}
    ELSE IF Head(text) \in Separators
         THEN (IF current = <<>> THEN {} ELSE {current}) \cup TokensFrom(Tail(text), <<>>)
         ELSE TokensFrom(Tail(text), Append(current, LowerCase(Head(text))))

tokenize(text) == TokensFrom(text, <<>>)

\* Some token of the text begins with t: t is found, lower-cased, at the
\* start of the text or right after a separator.
HasTokenWithPrefix(text, t) ==
    \E i \in 1..(Len(text) - Len(t) + 1) :
        /\ i = 1 \/ text[i - 1] \in Separators
        /\ \A k \in 1..Len(t) : LowerCase(text[i + k - 1]) = t[k]

\* The texts under which a document is found: its string properties (the
\* object's kind, a string of the program, among them).
DocTexts(d) == {d[f] : f \in StringProperties} \cup {TermTypeText(d.objectType)}

\* Full-text matching: without a term every document matches; with one,
\* the documents holding, for each token of the term, a token it is a prefix
\* of.  The terms searched for in this model are single words.
fullTextSearch(db, term) ==
    IF term = <<>>
    THEN db
    ELSE {d \in db : \A t \in tokenize(term) : \E text \in DocTexts(d) :
                         HasTokenWithPrefix(text, t)}

\* The orders in which the documents of an index can be laid out.
Orders(db) ==
    {o \in [1..Cardinality(db) -> ids(db)] : \A i, j \in 1..Cardinality(db) : o[i] = o[j] => i = j}

Position(order, id) == CHOOSE i \in 1..Len(order) : order[i] = id

Min(a, b) == IF a <= b THEN a ELSE b

\* The documents whose vector under the property is at least threshold
\* similar to the target, by descending similarity; documents of equal
\* similarity keep the order the index holds them in.
findSimilarVectors(db, property, target, threshold, order) ==
    LET similar == {d \in db : CosineSimilarity(target, d[property]) >= threshold}
        score(id) == CosineSimilarity(target, getByID(db, id)[property])
        Before(x, y) ==
            \/ score(x) > score(y)
            \/ score(x) = score(y) /\ Position(order, x) < Position(order, y)
    IN  CHOOSE s \in Orders(similar) :
            \A i, j \in 1..Len(s) : i < j => Before(s[i], s[j])

\* The ids of a set of documents in a given ranking of the whole index.
Ranked(docs, ranking) == SelectSeq(ranking, LAMBDA id : id \in ids(docs))

\* The builds of the index library: the source pins no version of it, and
\* its versions differ in the error with which search fails on a vector
\* property the index does not have, and in whether hybrid weights one of
\* which is 0 are used as given or replaced by the default weights.
UnknownPropertyErrors == {"TypeError", "UNKNOWN_VECTOR_PROPERTY"}

Builds == [thrown : UnknownPropertyErrors, zeroWeights : {"used", "defaulted"}]

\* The default hybrid weights, in tenths.
DefaultWeights == [text |-> 5, vector |-> 5]

\* The hits of a hybrid search in rank order.  The text hits are entered
\* first, in relevance order, then the vector hits that are no text hits;
\* a hit's score is weights.text times its text score plus weights.vector
\* times its similarity over the greatest similarity among the vector hits,
\* a side that did not find it contributing 0, and the hits are sorted by
\* descending score, hits of equal score staying as entered.  The text
\* scores themselves are the index's own: where they weigh against the
\* similarities the ranking is the input order.
mergeAndRankResults(db, textHits, vectorHits, property, target, hybridWeights, order, build) ==
    LET weights == IF build.zeroWeights = "defaulted"
                          /\ (hybridWeights.text = 0 \/ hybridWeights.vector = 0)
                   THEN DefaultWeights
                   ELSE hybridWeights
        tx == Ranked(textHits, order)
        vo == SelectSeq(vectorHits, LAMBDA id : id \notin ids(textHits))
        entered == tx \o vo
        sim(id) == CosineSimilarity(target, getByID(db, id)[property])
        found(id) == \E i \in 1..Len(vectorHits) : vectorHits[i] = id
        maxSim == CHOOSE x \in {sim(vectorHits[i]) : i \in 1..Len(vectorHits)} :
                      \A i \in 1..Len(vectorHits) : x >= sim(vectorHits[i])
        \* score(x) > score(y), the scores being weights.vector * sim / maxSim
        \* for a vector hit and 0 for any other: both sides are multiplied by
        \* maxSim * maxSim / weights.vector
        Above(x, y) ==
            LET sx == IF found(x) THEN sim(x) * maxSim ELSE 0
                sy == IF found(y) THEN sim(y) * maxSim ELSE 0
            IN  sx > sy
        at(seq, id) == CHOOSE i \in 1..Len(seq) : seq[i] = id
    IN  IF weights.vector = 0 \/ vectorHits = <<>>
        THEN entered
        ELSE IF weights.text = 0
        THEN CHOOSE r \in [1..Len(entered) -> Range(entered)] :
                 /\ Range(r) = Range(entered)
                 /\ \A i, j \in 1..Len(r) : i < j =>
                        \/ Above(r[i], r[j])
                        \/ ~Above(r[j], r[i]) /\ at(entered, r[i]) < at(entered, r[j])
        ELSE Ranked({d \in db : d.id \in Range(entered)}, order)

\* The library's search(db, params): params.mode selects full-text, vector
\* or hybrid search.  A vector property the index does not have makes the
\* search fail with the build's error, and so does a vector whose length is
\* not that of the property; the similarity threshold is used as given.
\* The relevance ranking of full-text hits is the index's own and is taken
\* as an input, like the layout of the index (order).
search(db, params, order, build) ==
    IF params.mode = "fulltext"
    THEN LET all == Ranked(fullTextSearch(db, params.term), order)
         IN  [count |-> Len(all), hits |-> SubSeq(all, 1, Min(params.limit, Len(all))),
              value |-> <<>>, error |-> "none"]
    ELSE IF params.property \notin VectorProperties
    THEN [count |-> 0, hits |-> <<>>, value |-> <<>>, error |-> build.thrown]
    ELSE IF params.vector.dim # EmbeddingDim
    THEN [count |-> 0, hits |-> <<>>, value |-> <<>>, error |-> "INVALID_INPUT_VECTOR"]
    ELSE IF params.mode = "vector"
    THEN LET all == findSimilarVectors(db, params.property, params.vector,
                                       params.similarity, order)
         IN  [count |-> Len(all), hits |-> SubSeq(all, 1, Min(params.limit, Len(all))),
              value |-> <<>>, error |-> "none"]
    ELSE LET vectorHits == findSimilarVectors(db, params.property, params.vector,
                                              params.similarity, order)
             all == mergeAndRankResults(db, fullTextSearch(db, params.term), vectorHits,
                                        params.property, params.vector,
                                        params.hybridWeights, order, build)
         IN  [count |-> Len(all), hits |-> SubSeq(all, 1, Min(params.limit, Len(all))),
              value |-> <<>>, error |-> "none"]

----------------------------------------------------------------------------
(* Event dispatch.  An execution state m is the record                     *)
(* [store, db, streams, counts, events, errors, halted, seen] threaded     *)
(* through the statements of one call.                                     *)

\* What the EventTarget does with the result r = [db, error] of a listener
\* that touches the index: an exception raised by a listener is caught by
\* dispatchEvent and reported as an uncaught error; it never reaches the
\* caller of dispatchEvent.  Without a global handler for the report the
\* program is terminated.
ListenerDone(m, r) ==
    IF r.error = "none"
    THEN [m EXCEPT !.db = r.db]
    ELSE [m EXCEPT !.db = r.db,
                   !.errors = Append(@, r.error),
                   !.halted = ~config.errorHandler]

\* Mutant: the ADD_QUAD listener stores the document under the subject.
OnAddQuad_IdIsSubject(m, detail) ==
    LET q == detail[1]
        id == q.subject.value
        doc == quadToOramaDoc(q, id)
    IN  ListenerDone(m, insert(m.db, doc))

\* OramaStore's listener for ADD_QUAD.
OnAddQuad(m, detail) ==
    LET q == detail[1]
        id == generateQuadId(q)
        doc == quadToOramaDoc(q, id)
    IN  ListenerDone(m, insert(m.db, doc))

\* Mutant: the REMOVE_QUAD listener leaves the index alone.
OnRemoveQuad_Ignored(m, detail) == m

\* OramaStore's listener for REMOVE_QUAD.
OnRemoveQuad(m, detail) ==
    LET q == detail[1]
        id == generateQuadId(q)
    IN  ListenerDone(m, remove(m.db, id))

\* Mutant: the coordinator also applies the batch events, quad by quad.
setupEventListeners_BatchToo(m, type, detail) ==
    CASE type = "addQuad" -> OnAddQuad(m, detail)
      [] type = "removeQuad" -> OnRemoveQuad(m, detail)
      [] type = "addQuads" /\ Len(detail[1]) = 1 -> OnAddQuad(m, detail[1])
      [] type = "addQuads" /\ Len(detail[1]) > 1 ->
            OnAddQuad(OnAddQuad(m, detail[1]), Tail(detail[1]))
      [] type = "removeQuads" /\ Len(detail[1]) = 1 -> OnRemoveQuad(m, detail[1])
      [] type = "removeQuads" /\ Len(detail[1]) > 1 ->
            OnRemoveQuad(OnRemoveQuad(m, detail[1]), Tail(detail[1]))
      [] OTHER -> m

\* OramaStore.setupEventListeners: the listeners the coordinator registers.
setupEventListeners(m, type, detail) ==
    CASE type = "addQuad" -> OnAddQuad(m, detail)
      [] type = "removeQuad" -> OnRemoveQuad(m, detail)
      [] OTHER -> m

\* The tracker's helper: add increment to the counter of every quad's subject.
RECURSIVE updateSubjectCounts(_, _, _)
updateSubjectCounts(counts, quads, increment) ==
    IF quads = <<>> THEN counts
    ELSE updateSubjectCounts(
             [counts EXCEPT ![Head(quads).subject.value] = @ + increment],
             Tail(quads), increment)

\* The listeners of the external subject tracker.
TrackListeners(m, type, detail) ==
    CASE type = "addQuad" ->
            [m EXCEPT !.counts = updateSubjectCounts(@, <<detail[1]>>, 1)]
      [] type = "removeQuad" ->
            [m EXCEPT !.counts = updateSubjectCounts(@, <<detail[1]>>, -1)]
      [] type \in {"removeMatches", "deleteGraph"} ->
            [m EXCEPT !.counts = updateSubjectCounts(@, detail, -1)]
      [] OTHER -> m

\* target.dispatchEvent(new CustomEvent(type, {detail})): the listeners run
\* synchronously, in registration order, before dispatchEvent returns.
dispatchEvent(m, type, detail) ==
    IF m.halted THEN m
    ELSE LET m0 == [m EXCEPT !.events = Append(@, [type |-> type, detail |-> detail]),
                             !.seen = Append(@, m.store)]
             m1 == IF config.indexing THEN setupEventListeners(m0, type, detail) ELSE m0
         IN  IF config.tracking /\ ~m1.halted THEN TrackListeners(m1, type, detail)
             ELSE m1

----------------------------------------------------------------------------
(* SyncStore: the N3 store with events. *)

Matches(q, pattern) ==
    /\ pattern.subject \in {Null, q.subject}
    /\ pattern.predicate \in {Null, q.predicate}
    /\ pattern.object \in {Null, q.object}
    /\ pattern.graph \in {Null, q.graph}

\* store.getQuads(s, p, o, g)
getQuads(store, pattern) == {q \in store : Matches(q, pattern)}

\* Mutant: ADD_QUAD is dispatched only when the quad was new to the store.
SyncStore_addQuad_OnlyWhenNew(m, q) ==
    IF m.halted \/ q \in m.store THEN m
    ELSE dispatchEvent([m EXCEPT !.store = @ \cup {q}], "addQuad", <<q>>)

\* Mutant: ADD_QUAD is dispatched before the quad is put in the store.
SyncStore_addQuad_DispatchFirst(m, q) ==
    IF m.halted THEN m
    ELSE [dispatchEvent(m, "addQuad", <<q>>) EXCEPT !.store = @ \cup {q}]

SyncStore_addQuad(m, q) ==
    IF m.halted THEN m
    ELSE dispatchEvent([m EXCEPT !.store = @ \cup {q}], "addQuad", <<q>>)

\* Mutant: REMOVE_QUAD is dispatched only when the quad was in the store.
SyncStore_removeQuad_OnlyWhenPresent(m, q) ==
    IF m.halted \/ q \notin m.store THEN m
    ELSE dispatchEvent([m EXCEPT !.store = @ \ {q}], "removeQuad", <<q>>)

SyncStore_removeQuad(m, q) ==
    IF m.halted THEN m
    ELSE dispatchEvent([m EXCEPT !.store = @ \ {q}], "removeQuad", <<q>>)

\* The base class's loop over a list: this.addQuad for each quad.
RECURSIVE AddEach(_, _)
AddEach(m, quads) ==
    IF quads = <<>> THEN m
    ELSE AddEach(SyncStore_addQuad(m, Head(quads)), Tail(quads))

\* The base class's loop over a list: this.removeQuad for each quad.
RECURSIVE RemoveEach(_, _)
RemoveEach(m, quads) ==
    IF quads = <<>> THEN m
    ELSE RemoveEach(SyncStore_removeQuad(m, Head(quads)), Tail(quads))

\* The batch events carry the call's argument array, whose one element is the
\* list of quads.

\* Mutant: the batch add changes the store without the per-quad calls.
SyncStore_addQuads_BatchOnly(m, quads) ==
    dispatchEvent([m EXCEPT !.store = @ \cup Range(quads)], "addQuads", <<quads>>)

\* Mutant: the batch event is dispatched before the per-quad calls.
SyncStore_addQuads_BatchFirst(m, quads) ==
    AddEach(dispatchEvent(m, "addQuads", <<quads>>), quads)

SyncStore_addQuads(m, quads) ==
    dispatchEvent(AddEach(m, quads), "addQuads", <<quads>>)

\* Mutant: the batch remove changes the store without the per-quad calls.
SyncStore_removeQuads_BatchOnly(m, quads) ==
    dispatchEvent([m EXCEPT !.store = @ \ Range(quads)], "removeQuads", <<quads>>)

SyncStore_removeQuads(m, quads) ==
    dispatchEvent(RemoveEach(m, quads), "removeQuads", <<quads>>)

\* Mutant: the base class removes the matching quads before it returns.
Store_removeMatches_Eager(m, pattern, snapshot) == RemoveEach(m, ToArray(snapshot))

\* The stream the base class's removeMatches builds over the quads matching
\* a pattern; it reads the store when it flows.  snapshot records the quads
\* that matched when the stream was built.
MatchStream(pattern, snapshot) ==
    [ofCaller |-> FALSE, pattern |-> pattern, snapshot |-> snapshot, yields |-> <<>>]

\* The stream a caller builds and hands to remove(stream) (the quads of a
\* SPARQL DELETE): it yields quads when it flows.
CallerStream(quads) ==
    [ofCaller |-> TRUE, pattern |-> quad(Null, Null, Null, Null), snapshot |-> {},
     yields |-> quads]

\* The quads a stream yields in one turn of the event loop.  A caller's
\* stream emits its quads one 'data' event at a time, other calls running
\* in between; the stream of removeMatches reads the quads matching its
\* pattern when it is first read and emits them all in that turn.
Yields(store, stream) ==
    IF stream.ofCaller THEN <<Head(stream.yields)>>
    ELSE ToArray(getQuads(store, stream.pattern))

\* The base class's remove(stream), which the later SyncStore does not
\* override: it listens to the stream and returns; each quad the stream
\* yields is removed with this.removeQuad when the stream emits it, after
\* the call has returned.  A caller's stream with nothing to yield leaves
\* nothing pending.
Store_remove(m, stream) ==
    IF m.halted THEN m
    ELSE IF stream.ofCaller /\ stream.yields = <<>> THEN m
    ELSE [m EXCEPT !.streams = Append(@, stream)]

\* The base class's removeMatches: it builds a stream over the matching quads
\* and hands it to this.remove.
Store_removeMatches(m, pattern, snapshot) ==
    Store_remove(m, MatchStream(pattern, snapshot))

SyncStore_removeMatches(m, pattern) ==
    LET quadsToRemove == ToArray(getQuads(m.store, pattern))
        result == Store_removeMatches(m, pattern, Range(quadsToRemove))
    IN  IF Len(quadsToRemove) > 0
        THEN dispatchEvent(result, "removeMatches", quadsToRemove)
        ELSE result

\* Mutant: the base class's deleteGraph does not go through the overridden
\* removeMatches.
SyncStore_deleteGraph_Direct(m, graph) ==
    LET quadsToRemove == ToArray(getQuads(m.store, quad(Null, Null, Null, graph)))
        result == Store_removeMatches(m, quad(Null, Null, Null, graph), Range(quadsToRemove))
    IN  IF Len(quadsToRemove) > 0
        THEN dispatchEvent(result, "deleteGraph", quadsToRemove)
        ELSE result

\* The base class's deleteGraph calls this.removeMatches(null, null, null, graph).
SyncStore_deleteGraph(m, graph) ==
    LET quadsToRemove == ToArray(getQuads(m.store, quad(Null, Null, Null, graph)))
        result == SyncStore_removeMatches(m, quad(Null, Null, Null, graph))
    IN  IF Len(quadsToRemove) > 0
        THEN dispatchEvent(result, "deleteGraph", quadsToRemove)
        ELSE result

\* A removal stream flows for one turn: each quad it yields in that turn
\* (for a caller's stream its next quad, for the stream of removeMatches
\* the quads matching its pattern now) is removed with this.removeQuad.  A
\* caller's stream stays pending with the quads it has yet to yield; a
\* stream that has yielded its last quad is no longer pending.
Stream_flow(m, i) ==
    LET s == m.streams[i]
        rest == [j \in 1..(Len(m.streams) - 1) |->
                    IF j < i THEN m.streams[j] ELSE m.streams[j + 1]]
        left == IF s.ofCaller /\ Tail(s.yields) # <<>>
                THEN [m.streams EXCEPT ![i] = CallerStream(Tail(s.yields))]
                ELSE rest
    IN  RemoveEach([m EXCEPT !.streams = left], Yields(m.store, s))

----------------------------------------------------------------------------
(* The earlier SyncStore (src/sync-store.ts:18-116), which overrides        *)
(* remove(stream) and whose removeMatches raises when nothing matches.      *)
(* Its addQuad, removeQuad, addQuads and removeQuads are those of the later *)
(* one.  A call gives                                                       *)
(* [m, error]: the state it leaves and the exception it raises, if any.     *)

\* remove(stream): the base class takes the stream, whose quads are removed
\* when it flows, and REMOVE_QUADS is dispatched with the call's arguments
\* before the call returns, the stream still pending.
SyncStoreV1_remove(m, stream) ==
    LET result == Store_remove(m, stream)
    IN  dispatchEvent(result, "removeQuads", <<stream>>)

\* Mutant: the snapshot is tested after the base call and the event.
SyncStoreV1_removeMatches_CheckLast(m, pattern) ==
    LET quadsToRemove == ToArray(getQuads(m.store, pattern))
        result == SyncStoreV1_remove(m, MatchStream(pattern, Range(quadsToRemove)))
    IN  IF ~(Len(quadsToRemove) > 0)
        THEN [m |-> result, error |-> "Invalid quads"]
        ELSE [m |-> dispatchEvent(result, "removeQuads", quadsToRemove), error |-> "none"]

\* removeMatches: the base class's removeMatches hands its stream to
\* this.remove, the overridden one.
SyncStoreV1_removeMatches(m, pattern) ==
    LET quadsToRemove == ToArray(getQuads(m.store, pattern))
    IN  IF ~(Len(quadsToRemove) > 0)
        THEN [m |-> m, error |-> "Invalid quads"]
        ELSE LET result == SyncStoreV1_remove(m, MatchStream(pattern, Range(quadsToRemove)))
             IN  [m |-> IF Len(quadsToRemove) > 0
                        THEN dispatchEvent(result, "removeQuads", quadsToRemove)
                        ELSE result,
                  error |-> "none"]

\* deleteGraph: the base class's deleteGraph calls this.removeMatches, whose
\* exception passes through.
SyncStoreV1_deleteGraph(m, graph) ==
    LET quadsToRemove == ToArray(getQuads(m.store, quad(Null, Null, Null, graph)))
        result == SyncStoreV1_removeMatches(m, quad(Null, Null, Null, graph))
    IN  IF result.error # "none"
        THEN result
        ELSE [m |-> IF Len(quadsToRemove) > 0
                    THEN dispatchEvent(result.m, "removeQuads", quadsToRemove)
                    ELSE result.m,
              error |-> "none"]

----------------------------------------------------------------------------
(* The third SyncStore kept in the file (src/sync-store.ts:282-346), whose  *)
(* event target is public and whose remove, removeMatches and deleteGraph   *)
(* dispatch REMOVE_QUADS with their arguments on every call.  Its addQuad,  *)
(* removeQuad, addQuads and removeQuads are those of the later one.         *)

\* remove(stream): the base class takes the stream and REMOVE_QUADS is
\* dispatched with the call's arguments, the stream still pending.
SyncStoreV3_remove(m, stream) ==
    LET result == Store_remove(m, stream)
    IN  dispatchEvent(result, "removeQuads", <<stream>>)

\* removeMatches(s, p, o, g): the base class's removeMatches hands its stream
\* to this.remove, the overridden one; then REMOVE_QUADS is dispatched with
\* the four arguments, whatever matched.
SyncStoreV3_removeMatches(m, pattern) ==
    LET result == SyncStoreV3_remove(m, MatchStream(pattern, getQuads(m.store, pattern)))
    IN  dispatchEvent(result, "removeQuads",
                      <<pattern.subject, pattern.predicate, pattern.object, pattern.graph>>)

\* deleteGraph(graph): the base class's deleteGraph calls this.removeMatches;
\* then REMOVE_QUADS is dispatched with the graph.
SyncStoreV3_deleteGraph(m, graph) ==
    LET result == SyncStoreV3_removeMatches(m, quad(Null, Null, Null, graph))
    IN  dispatchEvent(result, "removeQuads", <<graph>>)

----------------------------------------------------------------------------
(* OramaStore: the calls of the coordinator's own interface. *)

OramaStore_addQuad(m, q) == SyncStore_addQuad(m, q)

OramaStore_removeQuad(m, q) == SyncStore_removeQuad(m, q)

\* Mutant: the coordinator's addQuads hands the list to the store's addQuads.
OramaStore_addQuads_ViaBatch(m, quads) == SyncStore_addQuads(m, quads)

OramaStore_addQuads(m, quads) == AddEach(m, quads)

OramaStore_removeQuads(m, quads) == RemoveEach(m, quads)

getSize == Cardinality(syncStore)

getDocumentCount == count(oramaDB)

isInSync == getSize = getDocumentCount

getDocumentById(id) == getByID(oramaDB, id)

\* The query calls.  Each takes the execution state m it runs in and gives
\* the state it leaves and what the caller receives:
\* [count, hits, value, error].
NoResult == [count |-> 0, hits |-> <<>>, value |-> <<>>, error |-> "none"]

Value(v) == [count |-> 0, hits |-> <<>>, value |-> <<v>>, error |-> "none"]

OramaStore_getSize(m) == [m |-> m, result |-> Value(Cardinality(m.store))]

OramaStore_getDocumentCount(m) == [m |-> m, result |-> Value(count(m.db))]

OramaStore_isInSync(m) ==
    LET storeSize == OramaStore_getSize(m).result.value[1]
        oramaCount == OramaStore_getDocumentCount(m).result.value[1]
    IN  [m |-> m, result |-> Value(storeSize = oramaCount)]

\* Mutant: looking a document up takes it out of the index.
OramaStore_getDocumentById_Consuming(m, id) ==
    [m |-> [m EXCEPT !.db = remove(@, id).db], result |-> Value(getByID(m.db, id))]

OramaStore_getDocumentById(m, id) == [m |-> m, result |-> Value(getByID(m.db, id))]

\* A full-text search reads nothing in which the builds differ.
OramaStore_search(m, term, limit, order) ==
    [m |-> m,
     result |-> search(m.db, [mode |-> "fulltext", term |-> term, limit |-> limit], order,
                       CHOOSE build \in Builds : TRUE)]

OramaStore_vectorSearch(m, query, vectorProperty, similarity, limit, order, build) ==
    LET queryEmbedding == generateMockEmbedding(query)
    IN  [m |-> m,
         result |-> search(m.db, [mode |-> "vector", vector |-> queryEmbedding,
                                  property |-> vectorProperty, similarity |-> similarity,
                                  limit |-> limit], order, build)]

OramaStore_hybridSearch(m, query, vectorProperty, similarity, limit, hybridWeights, order, build) ==
    LET queryEmbedding == generateMockEmbedding(query)
    IN  [m |-> m,
         result |-> search(m.db, [mode |-> "hybrid", term |-> query,
                                  vector |-> queryEmbedding, property |-> vectorProperty,
                                  similarity |-> similarity, limit |-> limit,
                                  hybridWeights |-> hybridWeights], order, build)]

----------------------------------------------------------------------------
(* The state machine: one action per call, the whole call in one step. *)

AnyPattern == quad(Null, Null, Null, Null)

NoCounts == [v \in SubjectValues |-> 0]

\* The execution state a call starts from.
Cur ==
    [store |-> syncStore, db |-> oramaDB, streams |-> streams,
     counts |-> subjectQuadCounts, events |-> <<>>, errors |-> <<>>,
     halted |-> FALSE, seen |-> <<>>]

\* How a call ends.  No statement of SyncStore or OramaStore raises to its
\* caller: the base store's methods report by return value and dispatchEvent
\* keeps listener exceptions from its caller.  A call returns, unless an
\* unhandled listener exception terminated the program under it.
Outcome(m) == IF m.halted THEN "terminated" ELSE "returned"

\* The call op(...) ran from the current state and left m.  args are the
\* quads the call is about, in order: the quad of a single-quad call, the
\* list of a batch call, the quads a pattern matched or a stream yielded.
Returns(m, op, args, pattern, snapshot) ==
    /\ \A v \in SubjectValues : m.counts[v] \in (-MaxCount)..MaxCount
    /\ syncStore' = m.store
    /\ oramaDB' = m.db
    /\ streams' = m.streams
    /\ subjectQuadCounts' = m.counts
    /\ events' = m.events
    /\ errors' = m.errors
    /\ halted' = m.halted
    /\ last' = [op |-> op, args |-> args, pattern |-> pattern, snapshot |-> snapshot,
                preStore |-> syncStore, preDB |-> oramaDB, outcome |-> Outcome(m)]
    /\ answer' = NoResult
    /\ storeSeen' = m.seen
    /\ UNCHANGED config

InitWith(c) ==
    /\ syncStore = {}
    /\ oramaDB = {}
    /\ streams = <<>>
    /\ subjectQuadCounts = NoCounts
    /\ events = <<>>
    /\ errors = <<>>
    /\ halted = FALSE
    /\ last = [op |-> "new", args |-> <<>>, pattern |-> AnyPattern, snapshot |-> {},
               preStore |-> {}, preDB |-> {}, outcome |-> "returned"]
    /\ config = c
    /\ answer = NoResult
    /\ storeSeen = <<>>

\* new OramaStore(): an empty store, an empty index, the two index listeners.
\* Whether the embedding program handles the global error event is its own
\* choice.
Init ==
    \E e \in BOOLEAN :
        InitWith([indexing |-> TRUE, tracking |-> FALSE, errorHandler |-> e])

\* createMonitoredStore() with the subject tracker attached: a bare SyncStore
\* whose listeners only count.
InitTrack ==
    InitWith([indexing |-> FALSE, tracking |-> TRUE, errorHandler |-> TRUE])

AddQuad(q) ==
    /\ ~halted
    /\ Returns(OramaStore_addQuad(Cur, q), "addQuad", <<q>>, AnyPattern, {})

RemoveQuad(q) ==
    /\ ~halted
    /\ Returns(OramaStore_removeQuad(Cur, q), "removeQuad", <<q>>, AnyPattern, {})

AddQuads(quads) ==
    /\ ~halted
    /\ Returns(OramaStore_addQuads(Cur, quads), "OramaStore.addQuads", quads, AnyPattern, {})

RemoveQuads(quads) ==
    /\ ~halted
    /\ Returns(OramaStore_removeQuads(Cur, quads), "OramaStore.removeQuads", quads,
               AnyPattern, {})

StoreAddQuads(quads) ==
    /\ ~halted
    /\ Returns(SyncStore_addQuads(Cur, quads), "addQuads", quads, AnyPattern, {})

StoreRemoveQuads(quads) ==
    /\ ~halted
    /\ Returns(SyncStore_removeQuads(Cur, quads), "removeQuads", quads, AnyPattern, {})

RemoveMatches(pattern) ==
    /\ ~halted
    /\ Len(streams) < MaxStreams
    /\ Returns(SyncStore_removeMatches(Cur, pattern), "removeMatches",
               ToArray(getQuads(syncStore, pattern)), pattern,
               getQuads(syncStore, pattern))

DeleteGraph(graph) ==
    /\ ~halted
    /\ Len(streams) < MaxStreams
    /\ Returns(SyncStore_deleteGraph(Cur, graph), "deleteGraph",
               ToArray(getQuads(syncStore, quad(Null, Null, Null, graph))),
               quad(Null, Null, Null, graph),
               getQuads(syncStore, quad(Null, Null, Null, graph)))

\* A pending removal stream flows for one turn of the event loop: a caller's
\* stream emits its next quad, the stream of removeMatches all of its quads.
StreamFlow(i) ==
    /\ ~halted
    /\ Returns(Stream_flow(Cur, i), "streamFlow", Yields(syncStore, streams[i]),
               streams[i].pattern, streams[i].snapshot)

\* A caller hands a stream that will yield quads to remove(stream); the call
\* returns with the stream pending.
RemoveStream(quads) ==
    /\ ~halted
    /\ Len(streams) < MaxStreams
    /\ Returns(Store_remove(Cur, CallerStream(quads)), "remove", quads, AnyPattern, {})

\* store.addEventListener(event, listener) for each listener of the subject
\* tracker: from now on the tracker's listeners run on every event of their
\* types.  Nothing is dispatched and nothing that happened before reaches
\* the tracker.  The tracker is attached at most once.
AddEventListener ==
    /\ ~halted
    /\ ~config.tracking
    /\ config' = [config EXCEPT !.tracking = TRUE]
    /\ events' = <<>>
    /\ errors' = <<>>
    /\ storeSeen' = <<>>
    /\ answer' = NoResult
    /\ last' = [op |-> "addEventListener", args |-> <<>>, pattern |-> AnyPattern,
                snapshot |-> {}, preStore |-> syncStore, preDB |-> oramaDB,
                outcome |-> "returned"]
    /\ UNCHANGED <<syncStore, oramaDB, streams, subjectQuadCounts, halted>>

Next ==
    \/ AddEventListener
    \/ \E q \in Quads : AddQuad(q)
    \/ \E q \in Quads : RemoveQuad(q)
    \/ \E quads \in QuadLists : AddQuads(quads)
    \/ \E quads \in QuadLists : RemoveQuads(quads)
    \/ \E quads \in QuadLists : StoreAddQuads(quads)
    \/ \E quads \in QuadLists : StoreRemoveQuads(quads)
    \/ \E pattern \in Patterns : RemoveMatches(pattern)
    \/ \E graph \in Graphs : DeleteGraph(graph)
    \/ \E i \in 1..Len(streams) : StreamFlow(i)
    \/ \E quads \in QuadLists : RemoveStream(quads)

\* Every call made on an OramaStore and on the store it hands out, the
\* registration of further listeners included.
Spec == Init /\ [][Next]_vars

\* The calls of OramaStore's own interface only.
NextBasic ==
    \/ \E q \in Quads : AddQuad(q)
    \/ \E q \in Quads : RemoveQuad(q)
    \/ \E quads \in QuadLists : AddQuads(quads)
    \/ \E quads \in QuadLists : RemoveQuads(quads)

SpecBasic == Init /\ [][NextBasic]_vars

\* The calls made on a monitored SyncStore with the subject tracker attached.
NextStore ==
    \/ \E q \in Quads : AddQuad(q)
    \/ \E q \in Quads : RemoveQuad(q)
    \/ \E quads \in QuadLists : StoreAddQuads(quads)
    \/ \E quads \in QuadLists : StoreRemoveQuads(quads)
    \/ \E pattern \in Patterns : RemoveMatches(pattern)
    \/ \E graph \in Graphs : DeleteGraph(graph)
    \/ \E i \in 1..Len(streams) : StreamFlow(i)
    \/ \E quads \in QuadLists : RemoveStream(quads)

SpecTrack == InitTrack /\ [][NextStore]_vars

\* createMonitoredStore(): a bare SyncStore whose listeners only record the
\* events they receive.
InitMonitored ==
    InitWith([indexing |-> FALSE, tracking |-> FALSE, errorHandler |-> TRUE])

\* Direct calls on the monitored store, and the subject tracker attached at
\* any moment between them.
NextDirect ==
    \/ AddEventListener
    \/ \E q \in Quads : AddQuad(q)
    \/ \E q \in Quads : RemoveQuad(q)
    \/ \E quads \in QuadLists : StoreAddQuads(quads)
    \/ \E quads \in QuadLists : StoreRemoveQuads(quads)

SpecMonitored == InitMonitored /\ [][NextDirect]_vars

\* Removals on the monitored store that go through a stream (pattern-based
\* calls and remove(stream)), between additions.
NextMatches ==
    \/ \E q \in Quads : AddQuad(q)
    \/ \E pattern \in Patterns : RemoveMatches(pattern)
    \/ \E graph \in Graphs : DeleteGraph(graph)
    \/ \E i \in 1..Len(streams) : StreamFlow(i)
    \/ \E quads \in QuadLists : RemoveStream(quads)

SpecMonitoredMatches == InitMonitored /\ [][NextMatches]_vars

\* Single-quad calls on an OramaStore and pattern-based removals on the store
\* it hands out.
NextPattern ==
    \/ \E q \in Quads : AddQuad(q)
    \/ \E q \in Quads : RemoveQuad(q)
    \/ \E pattern \in Patterns : RemoveMatches(pattern)
    \/ \E graph \in Graphs : DeleteGraph(graph)
    \/ \E i \in 1..Len(streams) : StreamFlow(i)

SpecPattern == Init /\ [][NextPattern]_vars

\* Single-quad calls on an OramaStore and batch calls made directly on the
\* store it hands out.
NextStoreBatch ==
    \/ \E q \in Quads : AddQuad(q)
    \/ \E q \in Quads : RemoveQuad(q)
    \/ \E quads \in QuadLists : StoreAddQuads(quads)
    \/ \E quads \in QuadLists : StoreRemoveQuads(quads)

SpecStoreBatch == Init /\ [][NextStoreBatch]_vars

\* The call op(args) ran from the current state, left r.m and raised r.error
\* to its caller, if any.
Ends(r, op, args, pattern, snapshot) ==
    /\ syncStore' = r.m.store
    /\ oramaDB' = r.m.db
    /\ streams' = r.m.streams
    /\ subjectQuadCounts' = r.m.counts
    /\ events' = r.m.events
    /\ errors' = r.m.errors
    /\ halted' = r.m.halted
    /\ last' = [op |-> op, args |-> args, pattern |-> pattern, snapshot |-> snapshot,
                preStore |-> syncStore, preDB |-> oramaDB,
                outcome |-> IF r.error # "none" THEN "threw" ELSE Outcome(r.m)]
    /\ answer' = [NoResult EXCEPT !.error = r.error]
    /\ storeSeen' = r.m.seen
    /\ UNCHANGED config

\* A call that matches no fact starts no stream.
RemoveMatchesV1(pattern) ==
    /\ ~halted
    /\ Len(streams) < MaxStreams \/ getQuads(syncStore, pattern) = {}
    /\ Ends(SyncStoreV1_removeMatches(Cur, pattern), "removeMatches",
            ToArray(getQuads(syncStore, pattern)), pattern, getQuads(syncStore, pattern))

DeleteGraphV1(graph) ==
    /\ ~halted
    /\ Len(streams) < MaxStreams \/ getQuads(syncStore, quad(Null, Null, Null, graph)) = {}
    /\ Ends(SyncStoreV1_deleteGraph(Cur, graph), "deleteGraph",
            ToArray(getQuads(syncStore, quad(Null, Null, Null, graph))),
            quad(Null, Null, Null, graph),
            getQuads(syncStore, quad(Null, Null, Null, graph)))

\* A caller hands a stream that will yield quads to the earlier SyncStore's
\* remove(stream); the call returns with the stream pending.
RemoveStreamV1(quads) ==
    /\ ~halted
    /\ Len(streams) < MaxStreams
    /\ Ends([m |-> SyncStoreV1_remove(Cur, CallerStream(quads)), error |-> "none"],
            "remove", quads, AnyPattern, {})

\* The single-quad calls of the earlier SyncStore and its removals through
\* a stream.
NextInvalidQuads ==
    \/ \E q \in Quads : AddQuad(q)
    \/ \E q \in Quads : RemoveQuad(q)
    \/ \E quads \in QuadLists : RemoveStreamV1(quads)
    \/ \E pattern \in Patterns : RemoveMatchesV1(pattern)
    \/ \E graph \in Graphs : DeleteGraphV1(graph)
    \/ \E i \in 1..Len(streams) : StreamFlow(i)

\* The earlier SyncStore with the listeners of the monitored store, which
\* only record.
SpecInvalidQuads == InitMonitored /\ [][NextInvalidQuads]_vars

NextV1 ==
    \/ AddEventListener
    \/ \E quads \in QuadLists : StoreAddQuads(quads)
    \/ \E quads \in QuadLists : StoreRemoveQuads(quads)
    \/ NextInvalidQuads

\* Every call made on the earlier SyncStore, the registration of the subject
\* tracker's listeners included.
SpecV1 == InitMonitored /\ [][NextV1]_vars

RemoveStreamV3(quads) ==
    /\ ~halted
    /\ Len(streams) < MaxStreams
    /\ Returns(SyncStoreV3_remove(Cur, CallerStream(quads)), "remove", quads,
               AnyPattern, {})

RemoveMatchesV3(pattern) ==
    /\ ~halted
    /\ Len(streams) < MaxStreams
    /\ Returns(SyncStoreV3_removeMatches(Cur, pattern), "removeMatches",
               ToArray(getQuads(syncStore, pattern)), pattern,
               getQuads(syncStore, pattern))

DeleteGraphV3(graph) ==
    /\ ~halted
    /\ Len(streams) < MaxStreams
    /\ Returns(SyncStoreV3_deleteGraph(Cur, graph), "deleteGraph",
               ToArray(getQuads(syncStore, quad(Null, Null, Null, graph))),
               quad(Null, Null, Null, graph),
               getQuads(syncStore, quad(Null, Null, Null, graph)))

\* The mutations of the third SyncStore.
NextPublicTarget ==
    \/ \E q \in Quads : AddQuad(q)
    \/ \E q \in Quads : RemoveQuad(q)
    \/ \E quads \in QuadLists : StoreAddQuads(quads)
    \/ \E quads \in QuadLists : StoreRemoveQuads(quads)
    \/ \E quads \in QuadLists : RemoveStreamV3(quads)
    \/ \E pattern \in Patterns : RemoveMatchesV3(pattern)
    \/ \E graph \in Graphs : DeleteGraphV3(graph)
    \/ \E i \in 1..Len(streams) : StreamFlow(i)

\* Every mutation of the third SyncStore, with listeners that only record.
SpecPublicTarget == InitMonitored /\ [][NextPublicTarget]_vars

\* store.target.addEventListener(event, listener) for each listener of the
\* subject tracker: the third SyncStore has no addEventListener of its own,
\* its target is public.
NextV3 ==
    \/ AddEventListener
    \/ NextPublicTarget

SpecV3 == InitMonitored /\ [][NextV3]_vars

\* Facts for key derivation: besides Q1, Q2 and Q3, the fact Q4 whose object
\* is the IRI <v> where Q1 has the literal "v", and Q5, which is Q3 in the
\* graph named by the blank node _:g.
Q4 == quad(NamedNode(<<"a">>), NamedNode(<<"p">>), NamedNode(<<"v">>), DefaultGraph)
Q5 == quad(NamedNode(<<"b">>), NamedNode(<<"p">>), Literal(<<"w">>, <<"e">>), BlankNode(<<"g">>))

Q6 == quad(NamedNode(<<"a">>), NamedNode(<<"p">>), BlankNode(<<"v">>), DefaultGraph)

KeyQuads == {Q1, Q2, Q3, Q4, Q5, Q6}

NextKey ==
    \/ \E q \in KeyQuads : AddQuad(q)
    \/ \E q \in KeyQuads : RemoveQuad(q)

\* addQuad and removeQuad calls on an OramaStore over the key-derivation facts.
SpecKey == Init /\ [][NextKey]_vars

\* The query call op(args) ran from the current state and left r.m, giving its
\* caller r.result.
Answers(r, op, args) ==
    /\ syncStore' = r.m.store
    /\ oramaDB' = r.m.db
    /\ streams' = r.m.streams
    /\ subjectQuadCounts' = r.m.counts
    /\ events' = r.m.events
    /\ errors' = r.m.errors
    /\ halted' = r.m.halted
    /\ last' = [op |-> op, args |-> args, pattern |-> AnyPattern, snapshot |-> {},
                preStore |-> syncStore, preDB |-> oramaDB,
                outcome |-> IF r.result.error = "none" THEN "returned" ELSE "rejected"]
    /\ answer' = r.result
    /\ storeSeen' = r.m.seen
    /\ UNCHANGED config

\* The inputs of the query calls.  Similarities are in thousandths: 2000 and
\* -500 lie outside [0, 1].
QueryQuads == {Q1, Q3, Q4}

Queries == {<<>>, <<"a">>, <<"a", " ", "p", " ", "v">>}

Terms == {<<>>, <<"a">>, <<"x">>}

SearchProperties == {"subjectEmbedding", "combinedEmbedding", "invalidProperty"}

Similarities == {-500, 800, 2000}

Limits == {1, 10}

\* Hybrid weights are in tenths.
Weights == {[text |-> 10, vector |-> 0], [text |-> 0, vector |-> 10], [text |-> 5, vector |-> 5]}

HybridTerms == {<<"a">>, <<"x">>}

HybridSimilarities == {-500, 800}

QueryIds == {generateQuadId(q) : q \in QueryQuads}

GetSize ==
    /\ ~halted
    /\ Answers(OramaStore_getSize(Cur), "getSize", <<>>)

GetDocumentCount ==
    /\ ~halted
    /\ Answers(OramaStore_getDocumentCount(Cur), "getDocumentCount", <<>>)

IsInSync ==
    /\ ~halted
    /\ Answers(OramaStore_isInSync(Cur), "isInSync", <<>>)

GetDocumentById(id) ==
    /\ ~halted
    /\ Answers(OramaStore_getDocumentById(Cur, id), "getDocumentById", <<id>>)

Search(term, limit, order) ==
    /\ ~halted
    /\ Answers(OramaStore_search(Cur, term, limit, order), "search",
               [term |-> term, limit |-> limit])

VectorSearch(query, vectorProperty, similarity, limit, order, build) ==
    /\ ~halted
    /\ Answers(OramaStore_vectorSearch(Cur, query, vectorProperty, similarity, limit, order,
                                       build),
               "vectorSearch",
               [query |-> query, vectorProperty |-> vectorProperty,
                similarity |-> similarity, limit |-> limit])

HybridSearch(query, vectorProperty, similarity, limit, hybridWeights, order, build) ==
    /\ ~halted
    /\ Answers(OramaStore_hybridSearch(Cur, query, vectorProperty, similarity, limit,
                                       hybridWeights, order, build),
               "hybridSearch",
               [query |-> query, vectorProperty |-> vectorProperty,
                similarity |-> similarity, limit |-> limit,
                hybridWeights |-> hybridWeights])

NextQuery ==
    \/ \E q \in QueryQuads : AddQuad(q)
    \/ \E q \in QueryQuads : RemoveQuad(q)
    \/ GetSize
    \/ GetDocumentCount
    \/ IsInSync
    \/ \E id \in QueryIds : GetDocumentById(id)
    \/ \E term \in Terms, limit \in Limits, order \in Orders(oramaDB) :
           Search(term, limit, order)
    \/ \E query \in Queries, vectorProperty \in SearchProperties,
          similarity \in Similarities, limit \in Limits, order \in Orders(oramaDB),
          build \in Builds :
           VectorSearch(query, vectorProperty, similarity, limit, order, build)
    \/ \E query \in HybridTerms, vectorProperty \in SearchProperties,
          similarity \in HybridSimilarities, limit \in Limits, hybridWeights \in Weights,
          order \in Orders(oramaDB), build \in Builds :
           HybridSearch(query, vectorProperty, similarity, limit, hybridWeights, order,
                        build)

\* Mutations and queries through the interface of an OramaStore.
InitQuery == InitWith([indexing |-> TRUE, tracking |-> FALSE, errorHandler |-> FALSE])

SpecQuery == InitQuery /\ [][NextQuery]_vars

----------------------------------------------------------------------------
(* Claims. *)

Key(q) == generateQuadId(q)

Indexed(q) == Key(q) \in ids(oramaDB)

\* C1: after every OramaStore.addQuad, removeQuad, addQuads or removeQuads
\* call returns, the index holds as many documents as the store holds quads.
C1_InSyncAfterEveryCall == ~halted => isInSync

\* C2: after every mutation call returns, the document ids are exactly the
\* keys of the store's quads and quads correspond to documents one to one.
C2_KeysAreBijection ==
    ~halted =>
        /\ ids(oramaDB) = {Key(q) : q \in syncStore}
        /\ \A q1, q2 \in syncStore : Key(q1) = Key(q2) => q1 = q2
        /\ \A d1, d2 \in oramaDB : d1.id = d2.id => d1 = d2

\* The facts a call adds and the facts it removes.
AddedBy(c) == IF c.op \in {"addQuad", "addQuads"} THEN Range(c.args) ELSE {}

RemovedBy(c) ==
    IF c.op \in {"removeQuad", "removeQuads"} THEN Range(c.args)
    ELSE IF c.op \in {"removeMatches", "deleteGraph"} THEN c.snapshot
    ELSE {}

\* C3: when addQuad, removeQuad, addQuads, removeQuads, removeMatches or
\* deleteGraph returns, every fact the call adds is indexed and no fact the
\* call removes is still indexed.
C3_IndexReflectsCallOnReturn ==
    last.outcome = "returned" =>
        /\ \A q \in AddedBy(last) : Indexed(q)
        /\ \A q \in RemovedBy(last) : ~Indexed(q)

\* C4: a removeMatches call that matched facts takes out of the store only
\* facts of the snapshot it took (the facts carried in its event); a
\* matching fact added after the snapshot is not removed by that call.
C4_RemovesOnlySnapshot ==
    (last.op = "streamFlow" /\ last.snapshot # {}) =>
        (last.preStore \ syncStore) \subseteq last.snapshot

\* C5: when the ADD_QUAD listener fails during addQuad, the failure is
\* raised to the caller of addQuad.
C5_ListenerFailurePropagates ==
    (last.op = "addQuad" /\ errors # <<>>) => last.outcome = "threw"

\* C6: adding a fact that is already in the store leaves the store size and
\* the document count unchanged, raises no error in the index apply, and the
\* fact's key then retrieves the projection of the fact.
C6_DuplicateAddIsIdempotent ==
    (last.op = "addQuad" /\ last.args[1] \in last.preStore) =>
        /\ Cardinality(syncStore) = Cardinality(last.preStore)
        /\ count(oramaDB) = count(last.preDB)
        /\ errors = <<>>
        /\ getDocumentById(Key(last.args[1]))
               = quadToOramaDoc(last.args[1], Key(last.args[1]))

\* C7: removing a fact that is not in the store changes neither the store
\* nor the index and raises no error.
C7_RemoveAbsentIsNoOp ==
    (last.op = "removeQuad" /\ last.args[1] \notin last.preStore) =>
        /\ syncStore = last.preStore
        /\ oramaDB = last.preDB
        /\ errors = <<>>

\* C8: after removeQuad(F) for a fact F of the store, F's key retrieves
\* nothing, the document count is one less, and the document of every other
\* fact is as it was.
C8_RemoveDropsExactlyOne ==
    (last.op = "removeQuad" /\ last.args[1] \in last.preStore) =>
        /\ getDocumentById(Key(last.args[1])) = Undefined
        /\ count(oramaDB) = count(last.preDB) - 1
        /\ \A q \in last.preStore \ {last.args[1]} :
               getByID(oramaDB, Key(q)) = getByID(last.preDB, Key(q))

\* C9: after every addQuad or removeQuad call on a fact F, in any sequence
\* of such calls, the document of F is in the index if and only if F is in
\* the store: F's key retrieves F's projection when F is in the store and
\* nothing when it is not.
C9_DocPresentIffFactPresent ==
    last.op \in {"addQuad", "removeQuad"} =>
        LET F == last.args[1]
        IN  IF F \in syncStore
            THEN getDocumentById(Key(F)) = quadToOramaDoc(F, Key(F))
            ELSE getDocumentById(Key(F)) = Undefined

\* C9 witness: a removeQuad of a fact whose earlier add had been applied to
\* the index has taken the document out again.
C9_Witness ==
    /\ last.op = "removeQuad"
    /\ last.args[1] \in last.preStore
    /\ Key(last.args[1]) \in ids(last.preDB)
    /\ ~Indexed(last.args[1])
    /\ syncStore # {}

\* C10: the tracker's counter of every subject is the number of store quads
\* with that subject (so the counters sum to the store's size).
C10_CountersMatchStore ==
    \A v \in SubjectValues :
        subjectQuadCounts[v] = Cardinality({q \in syncStore : q.subject.value = v})

\* The events of one type among those the latest call dispatched, in order.
EventsOfType(t) == SelectSeq(events, LAMBDA e : e.type = t)

\* The facts that matched the latest call's pattern when the call began.
MatchedBefore == getQuads(last.preStore, last.pattern)

\* C11: a direct addQuad(F) dispatches exactly one event, an ADD_QUAD whose
\* payload carries F, whether or not F was in the store.
C11_AddQuadDispatchesOneAddQuad ==
    last.op = "addQuad" =>
        events = <<[type |-> "addQuad", detail |-> <<last.args[1]>>]>>

\* C11 witness: addQuad of a fact already in the store dispatched one event.
C11_Witness ==
    /\ last.op = "addQuad"
    /\ last.args[1] \in last.preStore
    /\ Len(events) = 1

\* C12: a direct removeQuad(F) dispatches exactly one event, a REMOVE_QUAD
\* whose payload carries F, whether or not F was in the store.
C12_RemoveQuadDispatchesOneRemoveQuad ==
    last.op = "removeQuad" =>
        events = <<[type |-> "removeQuad", detail |-> <<last.args[1]>>]>>

\* C12 witness: removeQuad on an empty store dispatched one event.
C12_Witness ==
    /\ last.op = "removeQuad"
    /\ last.preStore = {}
    /\ Len(events) = 1

\* C13: a direct addQuads of N facts dispatches one ADD_QUADS event carrying
\* the N facts (its payload is the call's argument array, which holds the
\* list), N ADD_QUAD events, one per fact, and no other event.
C13_AddQuadsDispatchesBatchAndEach ==
    last.op = "addQuads" =>
        /\ EventsOfType("addQuads") = <<[type |-> "addQuads", detail |-> <<last.args>>]>>
        /\ Len(EventsOfType("addQuad")) = Len(last.args)
        /\ \A i \in 1..Len(last.args) :
               EventsOfType("addQuad")[i].detail = <<last.args[i]>>
        /\ Len(events) = Len(last.args) + 1

\* C13 witness: addQuads of two different facts dispatched three events.
C13_Witness ==
    /\ last.op = "addQuads"
    /\ Len(last.args) = 2
    /\ last.args[1] # last.args[2]
    /\ Len(events) = 3

\* C14: a direct removeQuads of N facts dispatches one REMOVE_QUADS event
\* carrying the N facts, N REMOVE_QUAD events, one per fact, and no other
\* event, whether or not the facts were in the store.
C14_RemoveQuadsDispatchesBatchAndEach ==
    last.op = "removeQuads" =>
        /\ EventsOfType("removeQuads") = <<[type |-> "removeQuads", detail |-> <<last.args>>]>>
        /\ Len(EventsOfType("removeQuad")) = Len(last.args)
        /\ \A i \in 1..Len(last.args) :
               EventsOfType("removeQuad")[i].detail = <<last.args[i]>>
        /\ Len(events) = Len(last.args) + 1

\* C14 witness: removeQuads of two facts, one in the store and one not,
\* dispatched three events.
C14_Witness ==
    /\ last.op = "removeQuads"
    /\ Len(last.args) = 2
    /\ last.args[1] \in last.preStore
    /\ last.args[2] \notin last.preStore
    /\ Len(events) = 3

\* C15: when a removeMatches call that matched at least one fact returns, it
\* has dispatched exactly one event, a REMOVE_MATCHES whose payload is the
\* facts that matched before the call, each once; no REMOVE_QUADS and no
\* REMOVE_QUAD has been dispatched by then.
C15_RemoveMatchesDispatchesSnapshot ==
    (last.op = "removeMatches" /\ MatchedBefore # {}) =>
        /\ Len(events) = 1
        /\ events[1].type = "removeMatches"
        /\ Range(events[1].detail) = MatchedBefore
        /\ Len(events[1].detail) = Cardinality(MatchedBefore)

\* C15 witness: a removeMatches call that matched two facts has returned
\* with its event dispatched.
C15_Witness ==
    /\ last.op = "removeMatches"
    /\ Cardinality(MatchedBefore) = 2
    /\ MatchedBefore # last.preStore
    /\ Len(events) = 1

\* C16: a removeMatches or deleteGraph call that matches no fact dispatches
\* no event, returns normally and leaves the store and the index as they
\* were.
C16_ZeroMatchIsSilent ==
    (last.op \in {"removeMatches", "deleteGraph"} /\ MatchedBefore = {}) =>
        /\ events = <<>>
        /\ last.outcome = "returned"
        /\ syncStore = last.preStore
        /\ oramaDB = last.preDB

\* C17: a deleteGraph(g) call on a graph holding at least one fact dispatches
\* exactly two events, one REMOVE_MATCHES and one DELETE_GRAPH, each carrying
\* the facts that were in g before the call, each once.
C17_DeleteGraphDispatchesBoth ==
    (last.op = "deleteGraph" /\ MatchedBefore # {}) =>
        /\ Len(events) = 2
        /\ Len(EventsOfType("removeMatches")) = 1
        /\ Len(EventsOfType("deleteGraph")) = 1
        /\ \A i \in 1..2 :
               /\ Range(events[i].detail) = MatchedBefore
               /\ Len(events[i].detail) = Cardinality(MatchedBefore)

\* C17 witness: a deleteGraph of the default graph holding two facts, with a
\* fact of another graph in the store, has returned.
C17_Witness ==
    /\ last.op = "deleteGraph"
    /\ last.pattern.graph = DefaultGraph
    /\ Cardinality(MatchedBefore) = 2
    /\ MatchedBefore # last.preStore
    /\ Len(events) = 2

\* C18: a stream-based removal, the call of remove(stream) and the flow of
\* the stream, dispatches no REMOVE_QUADS and as many REMOVE_QUAD events as
\* facts were removed.
C18_OneEventPerFactRemoved ==
    last.op \in {"streamFlow", "remove"} =>
        /\ EventsOfType("removeQuads") = <<>>
        /\ Len(EventsOfType("removeQuad")) = Cardinality(last.preStore \ syncStore)

\* C19: any two different facts of the store have different keys.
C19_KeysAreInjective ==
    \A A, B \in syncStore : A # B => generateQuadId(A) # generateQuadId(B)

\* The fields of a key in their fixed order, and their '|'-joined text.
KeyFields(q) ==
    <<q.subject.value, q.predicate.value, q.object.value, q.graph.value,
      TermTypeText(q.object.termType),
      IF q.object.termType = "Literal" THEN q.object.language ELSE <<>>,
      IF q.object.termType = "Literal" THEN q.object.datatype ELSE <<>> >>

RECURSIVE JoinWithBar(_)
JoinWithBar(parts) ==
    IF Len(parts) = 1 THEN parts[1]
    ELSE parts[1] \o <<"|">> \o JoinWithBar(Tail(parts))

\* C20: the key of a fact is the '|'-joined text of subject value, predicate
\* value, object value, graph value, object term type, language and datatype
\* (the last two empty unless the object is a literal), and after addQuad(F)
\* this text retrieves the document of F.
C20_KeyIsJoinedFields ==
    last.op = "addQuad" =>
        LET F == last.args[1]
            k == JoinWithBar(KeyFields(F))
        IN  /\ generateQuadId(F) = k
            /\ Len(KeyFields(F)) = 7
            /\ F = Q4 => k = <<"a", "|", "p", "|", "v", "|", "|",
                               "N", "a", "m", "e", "d", "N", "o", "d", "e", "|", "|">>
            /\ getDocumentById(k) = quadToOramaDoc(F, k)

\* C20 witness: addQuad of a fact whose object is an IRI put a new document
\* under the fact's key, next to the document of a language-tagged fact.
C20_Witness ==
    /\ last.op = "addQuad"
    /\ last.args[1].object.termType = "NamedNode"
    /\ generateQuadId(last.args[1]) \notin ids(last.preDB)
    /\ generateQuadId(last.args[1]) \in ids(oramaDB)
    /\ Q3 \in syncStore

\* C21: isInSync() is true exactly when the store holds as many quads as the
\* index holds documents, and it is true in every state in which the ids of
\* the index are the keys of the store's quads.
C21_InSyncIsCountEquality ==
    /\ isInSync <=> (Cardinality(syncStore) = Cardinality(oramaDB))
    /\ (ids(oramaDB) = {generateQuadId(q) : q \in syncStore}) => isInSync

\* The query calls of an OramaStore.
QueryOps ==
    {"search", "vectorSearch", "hybridSearch", "getDocumentById", "getDocumentCount",
     "getSize", "isInSync"}

\* C22: a query call (search, vectorSearch, hybridSearch, getDocumentById,
\* getDocumentCount, getSize, isInSync) leaves the store and the index as
\* they were, whether it gives hits, an absent result or fails.
C22_QueriesChangeNothing ==
    last.op \in QueryOps =>
        /\ syncStore = last.preStore
        /\ oramaDB = last.preDB

\* C22 witness: getDocumentById gave an absent result on an index that holds
\* documents.
C22_Witness ==
    /\ last.op = "getDocumentById"
    /\ answer.value = <<Undefined>>
    /\ oramaDB # {}
    /\ syncStore # {}

\* C23: a vector search whose minimum similarity lies outside [0, 1] fails.
C23_OutOfRangeSimilarityRejected ==
    (last.op = "vectorSearch"
        /\ (last.args.similarity < 0 \/ last.args.similarity > 1000)) =>
        last.outcome = "rejected"

\* C25: a text search with the empty term gives zero hits.
C25_EmptyTermGivesNoHits ==
    (last.op = "search" /\ last.args.term = <<>>) =>
        /\ answer.hits = <<>>
        /\ answer.count = 0

C28_ObjectKindAndLiteralFields ==
    /\ last.op = "addQuad" =>
           LET F == last.args[1]
               d == getDocumentById(generateQuadId(F))
           IN  /\ d.objectType = F.object.termType
               /\ F.object.termType \in {"NamedNode", "BlankNode"} =>
                      d.objectLanguage = <<>> /\ d.objectDatatype = <<>>
               /\ F.object.termType = "Literal" =>
                      d.objectLanguage = F.object.language
                          /\ d.objectDatatype = F.object.datatype
    /\ \A d \in oramaDB :
           /\ d.objectType \in {"NamedNode", "BlankNode", "Literal"}
           /\ (d.objectLanguage # <<>> \/ d.objectDatatype # <<>>) => d.objectType = "Literal"

\* C28 witness: addQuad of a fact with a blank-node object put a document
\* tagged BlankNode with empty language and datatype next to the document
\* of a language-tagged literal.
C28_Witness ==
    /\ last.op = "addQuad"
    /\ last.args[1] = Q6
    /\ getDocumentById(generateQuadId(Q6)).objectType = "BlankNode"
    /\ getDocumentById(generateQuadId(Q6)).objectDatatype = <<>>
    /\ \E d \in oramaDB : d.objectLanguage = <<"e">> /\ d.objectDatatype = LangString

\* C29: the document of a fact holds four vectors, the embeddings of the
\* subject value, the predicate value, the object value and the text
\* subject + " " + predicate + " " + object, and projecting the fact changes
\* nothing but the fact itself in the store and its document in the index.
C29_FourEmbeddings ==
    last.op = "addQuad" =>
        LET F == last.args[1]
            d == getDocumentById(generateQuadId(F))
        IN  /\ d.subjectEmbedding = generateMockEmbedding(F.subject.value)
            /\ d.predicateEmbedding = generateMockEmbedding(F.predicate.value)
            /\ d.objectEmbedding = generateMockEmbedding(F.object.value)
            /\ d.combinedEmbedding =
                   generateMockEmbedding(F.subject.value \o <<" ">> \o F.predicate.value
                                             \o <<" ">> \o F.object.value)
            /\ DOMAIN d = StringProperties \cup {"objectType"} \cup VectorProperties
            /\ F = Q4 => d.combinedEmbedding = [hash |-> 90643591, dim |-> 384]
            /\ syncStore = last.preStore \cup {F}
            /\ oramaDB \ {d} \subseteq last.preDB
            /\ last.preDB \subseteq oramaDB

\* C29 witness: addQuad put the document of a new fact, whose combined
\* vector differs from its three other vectors, into an index that held
\* another document.
C29_Witness ==
    /\ last.op = "addQuad"
    /\ last.preDB # {}
    /\ generateQuadId(last.args[1]) \notin ids(last.preDB)
    /\ LET d == getDocumentById(generateQuadId(last.args[1]))
       IN  /\ d # Undefined
           /\ d.combinedEmbedding \notin
                  {d.subjectEmbedding, d.predicateEmbedding, d.objectEmbedding}

\* C31: once the removal started by a removeMatches or deleteGraph call has
\* run to completion, every fact of the call's snapshot is absent from the
\* store and from the index, and isInSync() is true.
C31_DrainedRemovalIsInSync ==
    (last.op = "streamFlow" /\ ~halted) =>
        /\ \A q \in last.snapshot : q \notin syncStore /\ ~Indexed(q)
        /\ streams = <<>> => isInSync

\* C32: the index holds no orphan document: every document id is the key
\* of a quad that is in the store.
C32_NoOrphanDocument ==
    ids(oramaDB) \subseteq {generateQuadId(q) : q \in syncStore}

\* C32 witness: a removeQuad took a fact out of the store and its document
\* out of the index, which still holds the document of another fact.
C32_Witness ==
    /\ last.op = "removeQuad"
    /\ last.args[1] \in last.preStore
    /\ generateQuadId(last.args[1]) \in ids(last.preDB)
    /\ generateQuadId(last.args[1]) \notin ids(oramaDB)
    /\ oramaDB # {}

\* The positions of a list of facts at which the fact's key is already in
\* the index: in the index before the call or put there by an earlier
\* position.
Repeats(quads, db) ==
    {i \in 1..Len(quads) :
        \/ generateQuadId(quads[i]) \in ids(db)
        \/ \E j \in 1..(i - 1) : generateQuadId(quads[j]) = generateQuadId(quads[i])}

\* C33: when addQuads or removeQuads is called directly on the store with N
\* facts, the coordinator applies each fact to the index once, on its
\* per-fact event, and leaves the batch event alone: after addQuads the
\* index has gained the documents of the facts and one insert has been
\* refused for each position whose key was already indexed, and no more;
\* after removeQuads the index has lost the documents of the facts and no
\* error was raised.
C33_BatchAppliedOncePerFact ==
    /\ (last.op = "addQuads" /\ last.outcome = "returned") =>
           /\ ids(oramaDB) = ids(last.preDB) \cup {generateQuadId(q) : q \in Range(last.args)}
           /\ Len(errors) = Cardinality(Repeats(last.args, last.preDB))
    /\ (last.op = "removeQuads" /\ last.outcome = "returned") =>
           /\ ids(oramaDB) = ids(last.preDB) \ {generateQuadId(q) : q \in Range(last.args)}
           /\ errors = <<>>

\* C33 witness: a direct addQuads of two facts with different keys, neither
\* indexed before, has put two documents into the index without an error.
C33_Witness ==
    /\ last.op = "addQuads"
    /\ Len(last.args) = 2
    /\ Repeats(last.args, last.preDB) = {}
    /\ Cardinality(oramaDB) = Cardinality(last.preDB) + 2
    /\ errors = <<>>
    /\ Len(events) = 3

\* C34: addQuad(F) dispatches its ADD_QUAD event after it has changed the
\* store, so the listeners find F in the store, and it dispatches the event
\* also when F was already in the store and nothing was added.
C34_AddQuadDispatchesAfterAndAlways ==
    last.op = "addQuad" =>
        LET F == last.args[1]
        IN  /\ Len(events) = 1
            /\ events[1] = [type |-> "addQuad", detail |-> <<F>>]
            /\ storeSeen = <<last.preStore \cup {F}>>
            /\ syncStore = last.preStore \cup {F}
            /\ F \in last.preStore => Len(events) > Cardinality(syncStore \ last.preStore)

\* C34 witness: an addQuad of a fact already in the store added nothing and
\* dispatched one ADD_QUAD, whose listeners found the store unchanged.
C34_Witness ==
    /\ last.op = "addQuad"
    /\ last.args[1] \in last.preStore
    /\ syncStore = last.preStore
    /\ Len(events) = 1
    /\ storeSeen = <<last.preStore>>

\* The events of the latest call are those a batch call on N facts is to
\* dispatch: the N per-fact events in the order of the list, then the batch
\* event with the call's argument array.
PerFactThenBatch(perFact, batch, quads) ==
    /\ Len(events) = Len(quads) + 1
    /\ \A i \in 1..Len(quads) :
           /\ events[i].type = perFact
           /\ events[i].detail = <<quads[i]>>
    /\ events[Len(events)].type = batch
    /\ events[Len(events)].detail = <<quads>>

\* C35: within one addQuads (removeQuads) call the N ADD_QUAD (REMOVE_QUAD)
\* events are dispatched in the order of the input list, and the one
\* ADD_QUADS (REMOVE_QUADS) event after all of them.
C35_PerFactEventsPrecedeBatchEvent ==
    /\ last.op = "addQuads" => PerFactThenBatch("addQuad", "addQuads", last.args)
    /\ last.op = "removeQuads" => PerFactThenBatch("removeQuad", "removeQuads", last.args)

\* C35 witness: an addQuads of two different facts dispatched their two
\* ADD_QUAD events in list order and then ADD_QUADS, whose listeners found
\* both facts in the store.
C35_Witness ==
    /\ last.op = "addQuads"
    /\ Len(last.args) = 2
    /\ last.args[1] # last.args[2]
    /\ events[1].detail = <<last.args[1]>>
    /\ events[2].detail = <<last.args[2]>>
    /\ events[3].type = "addQuads"
    /\ events[3].detail = <<last.args>>
    /\ storeSeen[3] = syncStore

\* The key recomputed from the fields of a document.
KeyOfDocument(d) ==
    d.subject \o <<"|">> \o d.predicate \o <<"|">> \o d.object \o <<"|">> \o d.graph
        \o <<"|">> \o TermTypeText(d.objectType) \o <<"|">> \o d.objectLanguage
        \o <<"|">> \o d.objectDatatype

\* C36: the id of every document of the index is the key recomputed from
\* the document's subject, predicate, object, graph, objectType,
\* objectLanguage and objectDatatype fields.
C36_DocumentIdIsKeyOfItsFields ==
    \A d \in oramaDB : d.id = KeyOfDocument(d)

\* C36 witness: the index holds the documents of a language-tagged literal
\* in a named graph, of a fact with an IRI object and of a fact with a
\* blank-node object.
C36_Witness ==
    /\ \E d \in oramaDB : d.objectLanguage = <<"e">> /\ d.graph # <<>>
    /\ \E d \in oramaDB : d.objectType = "NamedNode"
    /\ \E d \in oramaDB : d.objectType = "BlankNode"
    /\ last.op = "addQuad"
    /\ generateQuadId(last.args[1]) \notin ids(last.preDB)

\* C37: in the SyncStore whose removeMatches raises "Invalid quads" when
\* the pattern matches no fact, the error is raised before anything is
\* changed: the store is as it was, no event has been dispatched and no
\* removal has been started (every pending stream of a removeMatches call
\* is that of a call that matched facts).
C37_InvalidQuadsBeforeAnyMutation ==
    (last.op = "removeMatches" /\ MatchedBefore = {}) =>
        /\ last.outcome = "threw"
        /\ answer.error = "Invalid quads"
        /\ syncStore = last.preStore
        /\ events = <<>>
        /\ \A i \in 1..Len(streams) :
               ~streams[i].ofCaller => streams[i].snapshot # {}

\* C37 witness: removeMatches with a pattern that matches nothing raised on
\* a store that holds facts, with a caller's stream pending.
C37_Witness ==
    /\ last.op = "removeMatches"
    /\ MatchedBefore = {}
    /\ last.outcome = "threw"
    /\ syncStore # {}
    /\ last.pattern # AnyPattern
    /\ Len(streams) = 1
    /\ streams[1].ofCaller
    /\ streams[1].yields # <<>>

\* The execution state the latest call started from.
Before == [Cur EXCEPT !.store = last.preStore, !.db = last.preDB]

\* OramaStore.addQuad, respectively removeQuad, called once per element of a
\* list, in list order.
RECURSIVE AddOneByOne(_, _)
AddOneByOne(m, quads) ==
    IF quads = <<>> THEN m
    ELSE AddOneByOne(OramaStore_addQuad(m, Head(quads)), Tail(quads))

RECURSIVE RemoveOneByOne(_, _)
RemoveOneByOne(m, quads) ==
    IF quads = <<>> THEN m
    ELSE RemoveOneByOne(OramaStore_removeQuad(m, Head(quads)), Tail(quads))

\* The latest call left the store, the index, the events and the errors that
\* the execution state m holds.
LeftAs(m) ==
    /\ syncStore = m.store
    /\ oramaDB = m.db
    /\ Len(events) = Len(m.events)
    /\ events = m.events
    /\ errors = m.errors
    /\ halted = m.halted

\* C38: OramaStore.addQuads(quads) and OramaStore.removeQuads(quads) leave
\* the store and the index as addQuad, respectively removeQuad, called once
\* per element in list order leaves them, and dispatch the same events:
\* per-fact ADD_QUAD or REMOVE_QUAD events only, never a batch event.
C38_CoordinatorBatchIsOneByOne ==
    /\ last.op = "OramaStore.addQuads" =>
           /\ LeftAs(AddOneByOne(Before, last.args))
           /\ \A i \in 1..Len(events) :
                  /\ events[i].type = "addQuad"
                  /\ events[i].detail = <<last.args[i]>>
    /\ last.op = "OramaStore.removeQuads" =>
           /\ LeftAs(RemoveOneByOne(Before, last.args))
           /\ \A i \in 1..Len(events) :
                  /\ events[i].type = "removeQuad"
                  /\ events[i].detail = <<last.args[i]>>

\* C38 witness: OramaStore.addQuads of two different facts, one of them new,
\* dispatched two ADD_QUAD events and put the new fact's document into the
\* index.
C38_Witness ==
    /\ last.op = "OramaStore.addQuads"
    /\ Len(last.args) = 2
    /\ last.args[1] # last.args[2]
    /\ Len(events) = 2
    /\ syncStore # last.preStore
    /\ oramaDB # last.preDB

====
